---- MODULE Spec2Model ----
(***************************************************************************)
(* SvgCodeToHtmlConverter (src/converter.py): the line-by-line, four-stage *)
(* regular-expression rewriting of SVG text.  Strings are sequences of     *)
(* one-character strings; re.sub is modelled by a small backtracking       *)
(* matcher and by the replacement-template expansion Python performs.      *)
(***************************************************************************)
EXTENDS Integers, Sequences, FiniteSets, TLC

VARIABLES svg_code, hex_color, width, height, view_box,
          pc, rows, idx, cur, stage_in, new_svg_code, result_list, result,
          raised_in, calls, first, pass

fields == <<svg_code, hex_color, width, height, view_box>>
locals == <<rows, idx, cur, stage_in, new_svg_code, result_list, result>>
vars == <<svg_code, hex_color, width, height, view_box,
          pc, rows, idx, cur, stage_in, new_svg_code, result_list, result,
          raised_in, calls, first, pass>>

(***************************************************************************)
(* Strings and characters                                                  *)
(***************************************************************************)
\* A Python str as the sequence of its characters.
Chars(str) == [i \in 1..Len(str) |-> SubSeq(str, i, i)]

LF == "\n"
BS == "\\"
QUOTE == "\""

\* \d and \w of a str pattern, restricted to the ASCII characters of the model.
Digit == {"0", "1", "2", "3", "4", "5", "6", "7", "8", "9"}
Lower == {Chars("abcdefghijklmnopqrstuvwxyz")[i] : i \in 1..26}
Upper == {Chars("ABCDEFGHIJKLMNOPQRSTUVWXYZ")[i] : i \in 1..26}
Word == Lower \cup Upper \cup Digit \cup {"_"}

\* str(n) / f'{n}' of a Python int.
RECURSIVE NatToStr(_)
NatToStr(n) ==
    IF n < 10 THEN <<Chars("0123456789")[n + 1]>>
    ELSE NatToStr(n \div 10) \o <<Chars("0123456789")[(n % 10) + 1]>>

IntToStr(n) == IF n < 0 THEN <<"-">> \o NatToStr(0 - n) ELSE NatToStr(n)

\* str.split('\n'): one row more than there are line feeds; row k lies between
\* the (k-1)-th and the k-th line feed, and holds none.
Split(s) ==
    LET nl == {i \in 1..Len(s) : s[i] = LF}
        cut(k) == IF k = 0 THEN 0
                  ELSE IF k > Cardinality(nl) THEN Len(s) + 1
                  ELSE CHOOSE i \in nl : Cardinality({j \in nl : j < i}) = k - 1
    IN  [k \in 1..(Cardinality(nl) + 1) |-> SubSeq(s, cut(k - 1) + 1, cut(k) - 1)]

\* '\n'.join(list)
RECURSIVE Join(_)
Join(l) ==
    IF l = <<>> THEN <<>>
    ELSE IF Len(l) = 1 THEN l[1]
    ELSE l[1] \o <<LF>> \o Join(Tail(l))

(***************************************************************************)
(* Regular expressions: a pattern is a sequence of items, each a character *)
(* set taken once or one-or-more times (greedy, with backtracking).        *)
(***************************************************************************)
Lit(str) == [i \in 1..Len(str) |-> [set |-> {SubSeq(str, i, i)}, plus |-> FALSE]]
OneOrMore(S) == <<[set |-> S, plus |-> TRUE]>>

NoMatch == -1

\* The number of consecutive characters of s from position i that lie in S.
Run(S, s, i) ==
    LET stop == {j \in i..(Len(s) + 1) : j = Len(s) + 1 \/ s[j] \notin S}
    IN  (CHOOSE j \in stop : \A k \in stop : j <= k) - i

\* The position after the match of items k.. of p at position i of s, or NoMatch.
RECURSIVE MatchFrom(_, _, _, _)
MatchFrom(p, k, s, i) ==
    IF k > Len(p) THEN i
    ELSE IF ~p[k].plus
         THEN IF i <= Len(s) /\ s[i] \in p[k].set
              THEN MatchFrom(p, k + 1, s, i + 1)
              ELSE NoMatch
         ELSE LET run == Run(p[k].set, s, i)
                  good == {n \in 1..run : MatchFrom(p, k + 1, s, i + n) # NoMatch}
              IN  IF good = {} THEN NoMatch
                  ELSE MatchFrom(p, k + 1, s,
                                 i + CHOOSE n \in good : \A m \in good : m <= n)

MatchAt(p, s, i) == MatchFrom(p, 1, s, i)

\* The set of all positions where p matches (overlapping ones included).
Occurrences(p, s) == {i \in 1..Len(s) : MatchAt(p, s, i) # NoMatch}

\* The first position from i on where p matches, or NoMatch: the scan of re.sub.
Search(p, s, i) ==
    LET at == {j \in Occurrences(p, s) : j >= i}
    IN  IF at = {} THEN NoMatch ELSE CHOOSE j \in at : \A k \in at : j <= k

Contains(s, str) == Occurrences(Lit(str), s) # {}

(***************************************************************************)
(* The replacement template of re.sub (re._parser.parse_template): Python  *)
(* parses the template before it looks for a match.                        *)
(***************************************************************************)
ReError == <<"re.error">>

\* Letters that follow a backslash legally, and the character each stands for.
EscapeLetters == {"a", "b", "f", "n", "r", "t", "v"}
EscapeChar(c) ==
    CASE c = "n" -> LF
      [] c = "t" -> "\t"
      [] c = "r" -> "\r"
      [] c = "f" -> "\f"
      [] OTHER -> "\\" \o c      \* a token for the control character \a, \b, \v, \0

\* Whether template t, read from position i, is one Python accepts for a pattern
\* without groups.
RECURSIVE TemplateOk(_, _)
TemplateOk(t, i) ==
    IF i > Len(t) THEN TRUE
    ELSE IF t[i] # BS THEN TemplateOk(t, i + 1)
    ELSE IF i = Len(t) THEN FALSE                        \* bad escape (end of pattern)
    ELSE IF t[i + 1] = "g"
         THEN /\ i + 4 <= Len(t)
              /\ SubSeq(t, i + 2, i + 4) = Chars("<0>")  \* only group 0 exists
              /\ TemplateOk(t, i + 5)
    ELSE IF t[i + 1] = "0" THEN TemplateOk(t, i + 2)
    ELSE IF t[i + 1] \in Digit THEN FALSE                \* invalid group reference
    ELSE IF t[i + 1] \in (Lower \cup Upper) \ EscapeLetters THEN FALSE  \* bad escape
    ELSE TemplateOk(t, i + 2)

\* The text template t stands for when the match is m.
RECURSIVE Expand(_, _, _)
Expand(t, i, m) ==
    IF i > Len(t) THEN <<>>
    ELSE IF t[i] # BS THEN <<t[i]>> \o Expand(t, i + 1, m)
    ELSE IF t[i + 1] = "g" THEN m \o Expand(t, i + 5, m)
    ELSE IF t[i + 1] = BS THEN <<BS>> \o Expand(t, i + 2, m)
    ELSE IF t[i + 1] \in EscapeLetters \cup {"0"}
         THEN <<EscapeChar(t[i + 1])>> \o Expand(t, i + 2, m)
    ELSE <<BS, t[i + 1]>> \o Expand(t, i + 2, m)

\* re.sub(p, t, s) once the template is known to be good: the leftmost match
\* from i on is replaced, and the scan goes on after it.
RECURSIVE SubFrom(_, _, _, _)
SubFrom(p, t, s, i) ==
    LET b == Search(p, s, i)
        e == MatchAt(p, s, b)
    IN  IF b = NoMatch THEN SubSeq(s, i, Len(s))
        ELSE SubSeq(s, i, b - 1) \o Expand(t, 1, SubSeq(s, b, e - 1))
                 \o SubFrom(p, t, s, e)

\* re.sub(p, t, s): the new string, or ReError when Python raises re.error.
ReSub(p, t, s) == IF TemplateOk(t, 1) THEN SubFrom(p, t, s, 1) ELSE ReError

(***************************************************************************)
(* The patterns of the five substitutions and of the two removals          *)
(***************************************************************************)
ColonSvgPat == Lit(":svg")
SvgColonPat == Lit("svg:")
WidthPat == Lit("width=\"") \o OneOrMore(Digit) \o Lit("\"")
HeightPat == Lit("height=\"") \o OneOrMore(Digit) \o Lit("\"")
SignedNum == Digit \cup {"-", "."}
UnsignedNum == Digit \cup {"."}
ViewBoxPat ==
    Lit("viewBox=\"") \o OneOrMore(SignedNum) \o Lit(" ") \o OneOrMore(SignedNum)
        \o Lit(" ") \o OneOrMore(UnsignedNum) \o Lit(" ") \o OneOrMore(UnsignedNum)
        \o Lit("\"")
StrokePat == Lit("stroke=\"#") \o OneOrMore(Word) \o Lit("\"")
FillPat == Lit("fill=\"#") \o OneOrMore(Word) \o Lit("\"")

\* f'name="{value}"'
Attr(name, value) == Chars(name) \o <<"=", QUOTE>> \o value \o <<QUOTE>>

(***************************************************************************)
(* The four stages                                                         *)
(***************************************************************************)
_get_clear_svg(s) == ReSub(SvgColonPat, <<>>, ReSub(ColonSvgPat, <<>>, s))

_get_change_stroke(color, s) == ReSub(StrokePat, Attr("stroke", color), s)

\* A fill substitution that looks only at rows holding a tag opener.
_get_change_fill_in_tag_rows(color, s) ==
    IF Contains(s, "<") THEN ReSub(FillPat, Attr("fill", color), s) ELSE s

_get_change_fill(color, s) == ReSub(FillPat, Attr("fill", color), s)

\* The tag stage with the width and the height taken for one another.
_get_change_svg_tag_swapped(w, h, vb, s) ==
    LET a == ReSub(WidthPat, Attr("width", IntToStr(h)), s)
        b == ReSub(HeightPat, Attr("height", IntToStr(w)), a)
    IN  IF a = ReError \/ b = ReError THEN ReError
        ELSE ReSub(ViewBoxPat, Attr("viewBox", vb), b)

_get_change_svg_tag(w, h, vb, s) ==
    LET a == ReSub(WidthPat, Attr("width", IntToStr(w)), s)
        b == ReSub(HeightPat, Attr("height", IntToStr(h)), a)
    IN  IF a = ReError \/ b = ReError THEN ReError
        ELSE ReSub(ViewBoxPat, Attr("viewBox", vb), b)

(***************************************************************************)
(* The inputs: the spec's sample documents, and every concatenation of at  *)
(* most MaxFrags pieces of markup.                                         *)
(***************************************************************************)
MaxFrags == 3
MaxCalls == 2
MaxPasses == 2

DefaultWidth == 20
DefaultHeight == 20
DefaultViewBox == Chars("0 0 20 20")

Frags ==
    { Chars("sv"), Chars("svg:"), Chars("g:"), Chars(":svg"),
      Chars("width=\"2"), Chars("fill=\"#a"), <<QUOTE>>, <<LF>> }

RECURSIVE FragSeqs(_)
FragSeqs(n) ==
    IF n = 0 THEN {<<>>}
    ELSE FragSeqs(n - 1) \cup {f \o t : f \in Frags, t \in FragSeqs(n - 1)}

SvgTagLine == Chars("<svg width=\"24\" height=\"24\" viewBox=\"0 0 24 24\">")
PathLine == Chars("<path stroke=\"#000000\" fill=\"#ffffff\"/>")
PlainPathLine == Chars("<path stroke=\"none\" fill=\"currentColor\"/>")
PrefixedLine == Chars("<svg:rect svg:x=\"1\"/>")
RectLine == Chars("<rect width=\"5\" height=\"5\"/>")
StrokeWidthLine == Chars("<path stroke-width=\"2\"/>")
ContinuationLine == Chars("  width=\"24\" fill=\"#000000\"")
HiddenWidthLine == Chars("<svg:svg wid:svgth=\"24\">")
TwoWidthsLine == Chars("<svg width=\"1\" width=\"22\" viewBox=\"-1 .5 3 4\">")

\* A tag whose attributes stand on a row of their own.
SpreadTag == Chars("<svg") \o <<LF>> \o ContinuationLine \o <<LF>> \o Chars(">")
\* A tag with a line feed inside the value of each of two attributes.
SplitAttributes ==
    Chars("<svg width=\"") \o <<LF>> \o Chars("24\" stroke=\"#") \o <<LF>> \o Chars("000\">")

Examples ==
    { SvgTagLine, PathLine, PlainPathLine, PrefixedLine, RectLine, StrokeWidthLine,
      HiddenWidthLine, TwoWidthsLine, SpreadTag, SplitAttributes,
      SvgTagLine \o <<LF>> \o PathLine \o <<LF>> \o Chars("</svg>") }

Inputs == Examples \cup FragSeqs(MaxFrags)

\* The configurations: the defaults with a hex colour; a colour name with other
\* sizes; a colour holding a line feed; a colour holding a backslash escape; a
\* viewBox holding the two characters backslash, n.
Configs ==
    { [hex_color |-> Chars("#FF0000"), width |-> DefaultWidth, height |-> DefaultHeight,
       view_box |-> DefaultViewBox],
      [hex_color |-> Chars("red"), width |-> 7, height |-> -3,
       view_box |-> Chars("-1 .5 7 5")],
      [hex_color |-> Chars("#a") \o <<LF>> \o Chars("b"), width |-> DefaultWidth,
       height |-> DefaultHeight, view_box |-> DefaultViewBox],
      [hex_color |-> <<BS>> \o Chars("1"), width |-> DefaultWidth,
       height |-> DefaultHeight, view_box |-> DefaultViewBox],
      [hex_color |-> Chars("#FF0000"), width |-> DefaultWidth, height |-> DefaultHeight,
       view_box |-> Chars("0 0") \o <<BS>> \o Chars("n9 9")] }

(***************************************************************************)
(* The state machine: an object, and the calls of get_svg_tag on it        *)
(***************************************************************************)
NoOutcome == [kind |-> "none", val |-> <<>>]
Returned(s) == [kind |-> "returned", val |-> s]
Raised == [kind |-> "raised", val |-> <<>>]

NoLocals ==
    /\ rows = <<>> /\ idx = 0 /\ cur = <<>> /\ stage_in = <<>>
    /\ new_svg_code = <<>> /\ result_list = <<>> /\ result = <<>>

\* __init__
Init ==
    /\ svg_code \in Inputs
    /\ \E c \in Configs :
          /\ hex_color = c.hex_color
          /\ width = c.width
          /\ height = c.height
          /\ view_box = c.view_box
    /\ pc = "idle"
    /\ NoLocals
    /\ raised_in = "nowhere"
    /\ calls = 0
    /\ first = NoOutcome
    /\ pass = 1

\* The outcome of a call that ends: what it hands back to its caller.
Finish(outcome) ==
    /\ calls' = calls + 1
    /\ first' = IF calls = 0 THEN outcome ELSE first

\* A call that goes on with the list the call before filled.
CallKeepingList ==
    /\ pc = "idle"
    /\ rows' = Split(svg_code)
    /\ idx' = 1
    /\ pc' = "loop"
    /\ UNCHANGED <<fields, cur, stage_in, new_svg_code, result_list, result, raised_in,
                   calls, first, pass>>

\* get_svg_tag is entered: result_list = [], and the rows are split once.  The
\* other locals still hold whatever the frame before left: each is written before
\* it is read.
Call ==
    /\ pc = "idle"
    /\ rows' = Split(svg_code)
    /\ result_list' = <<>>
    /\ idx' = 1
    /\ pc' = "loop"
    /\ UNCHANGED <<fields, cur, stage_in, new_svg_code, result, raised_in, calls, first,
                   pass>>

\* for svg_code in self._svg_rows_list
NextRow ==
    /\ pc = "loop"
    /\ idx <= Len(rows)
    /\ cur' = rows[idx]
    /\ pc' = "clear"
    /\ UNCHANGED <<fields, rows, idx, stage_in, new_svg_code, result_list, result,
                   raised_in, calls, first, pass>>

\* One stage: it reads `from`, and either yields `out` or raises re.error, which
\* nothing catches: the call ends there.
Stage(at, from, out, next) ==
    /\ pc = at
    /\ stage_in' = from
    /\ IF out = ReError
       THEN /\ pc' = "raised"
            /\ raised_in' = at
            /\ Finish(Raised)
            /\ UNCHANGED new_svg_code
       ELSE /\ pc' = next
            /\ new_svg_code' = out
            /\ UNCHANGED <<raised_in, calls, first>>
    /\ UNCHANGED <<fields, rows, idx, cur, result_list, result, pass>>

Clear == Stage("clear", cur, _get_clear_svg(cur), "tag")

ChangeSvgTag ==
    Stage("tag", new_svg_code,
          _get_change_svg_tag(width, height, view_box, new_svg_code), "stroke")

ChangeStroke ==
    Stage("stroke", new_svg_code, _get_change_stroke(hex_color, new_svg_code), "fill")

ChangeFill ==
    Stage("fill", new_svg_code, _get_change_fill(hex_color, new_svg_code), "append")

\* An append that puts the row in front.
AppendRowInFront ==
    /\ pc = "append"
    /\ result_list' = <<new_svg_code>> \o result_list
    /\ idx' = idx + 1
    /\ pc' = "loop"
    /\ UNCHANGED <<fields, rows, cur, stage_in, new_svg_code, result, raised_in, calls,
                   first, pass>>

\* result_list.append(new_svg_code)
AppendRow ==
    /\ pc = "append"
    /\ result_list' = Append(result_list, new_svg_code)
    /\ idx' = idx + 1
    /\ pc' = "loop"
    /\ UNCHANGED <<fields, rows, cur, stage_in, new_svg_code, result, raised_in, calls,
                   first, pass>>

\* return '\n'.join(result_list)
Return ==
    /\ pc = "loop"
    /\ idx > Len(rows)
    /\ result' = Join(result_list)
    /\ pc' = "done"
    /\ Finish(Returned(Join(result_list)))
    /\ UNCHANGED <<fields, rows, idx, cur, stage_in, new_svg_code, result_list,
                   raised_in, pass>>

\* The caller calls get_svg_tag on the same object once more.
CallAgain ==
    /\ pc \in {"done", "raised"}
    /\ calls < MaxCalls
    /\ pc' = "idle"
    /\ raised_in' = "nowhere"
    /\ UNCHANGED <<fields, locals, calls, first, pass>>

\* The caller builds a converter for the text just returned, configured alike.
Reapply ==
    /\ pc = "done"
    /\ pass < MaxPasses
    /\ svg_code' = result
    /\ pass' = pass + 1
    /\ calls' = 0
    /\ first' = NoOutcome
    /\ pc' = "idle"
    /\ UNCHANGED <<hex_color, width, height, view_box, rows, idx, cur, stage_in,
                   new_svg_code, result_list, result, raised_in>>

Next ==
    \/ Call
    \/ NextRow
    \/ Clear
    \/ ChangeSvgTag
    \/ ChangeStroke
    \/ ChangeFill
    \/ AppendRow
    \/ Return
    \/ CallAgain
    \/ Reapply

Spec == Init /\ [][Next]_vars

(***************************************************************************)
(* What the properties below are stated with                               *)
(***************************************************************************)
\* s with every leftmost, non-overlapping occurrence of p from i on replaced by
\* the text r, taken as it stands.
RECURSIVE Replaced(_, _, _, _)
Replaced(p, r, s, i) ==
    LET b == Search(p, s, i)
    IN  IF b = NoMatch THEN SubSeq(s, i, Len(s))
        ELSE SubSeq(s, i, b - 1) \o r \o Replaced(p, r, s, MatchAt(p, s, b))

\* Every occurrence of p in s reads `text`.
Carries(p, s, text) ==
    \A i \in Occurrences(p, s) : SubSeq(s, i, MatchAt(p, s, i) - 1) = text

LineCount(s) == Cardinality({i \in 1..Len(s) : s[i] = LF}) + 1

\* The configuration of the defaults, with the colour of the spec's examples.
DefaultConfig ==
    /\ hex_color = Chars("#FF0000")
    /\ width = DefaultWidth
    /\ height = DefaultHeight
    /\ view_box = DefaultViewBox

\* A viewBox value as the data model has it: numeric tokens and spaces.
NumericViewBox == \A i \in 1..Len(view_box) : view_box[i] \in SignedNum \cup {" "}

\* A row through the four stages in their order; ReError when a stage raises.
Pipeline(row) ==
    LET a == _get_clear_svg(row)
        b == _get_change_svg_tag(width, height, view_box, a)
        c == IF b = ReError THEN ReError ELSE _get_change_stroke(hex_color, b)
    IN  IF c = ReError THEN ReError ELSE _get_change_fill(hex_color, c)

(***************************************************************************)
(* The properties                                                          *)
(***************************************************************************)
\* C1: the string get_svg_tag returns has as many lines as svg_code, whatever the
\* configuration.
C1_LineCountPreserved == pc = "done" => LineCount(result) = LineCount(svg_code)

\* C2: get_svg_tag never raises, whatever the input and the configured values.
C2_NeverRaises == pc # "raised"

\* C3: the transformation applied to its own output, configured alike, returns
\* that output unchanged.
C3_Idempotent == (pc = "done" /\ pass > 1) => result = svg_code

\* C4: what _get_clear_svg returns holds neither ':svg' nor 'svg:'.
C4_PrefixesGone ==
    pc = "tag" => ~Contains(new_svg_code, ":svg") /\ ~Contains(new_svg_code, "svg:")

\* C5: the tag stage replaces every width="<digits>", height="<digits>" and
\* viewBox="<a> <b> <c> <d>" of the row by the attribute with the configured
\* value and leaves the rest of the row alone; every such attribute of the row it
\* returns carries the configured value; the spec's sample tag becomes the
\* sample's result under the defaults.
C5_TagAttributesNormalized ==
    (pc = "stroke" /\ NumericViewBox) =>
        LET w == Attr("width", IntToStr(width))
            h == Attr("height", IntToStr(height))
            v == Attr("viewBox", view_box)
        IN  /\ new_svg_code =
                   Replaced(ViewBoxPat, v,
                            Replaced(HeightPat, h, Replaced(WidthPat, w, stage_in, 1), 1), 1)
            /\ Carries(WidthPat, new_svg_code, w)
            /\ Carries(HeightPat, new_svg_code, h)
            /\ Carries(ViewBoxPat, new_svg_code, v)
            /\ (stage_in = SvgTagLine /\ DefaultConfig) =>
                   new_svg_code =
                       Chars("<svg width=\"20\" height=\"20\" viewBox=\"0 0 20 20\">")

\* C5's case: a row with two width attributes and a viewBox went through the tag
\* stage, under sizes that differ from one another.
C5_Witness ==
    /\ pc = "stroke"
    /\ NumericViewBox
    /\ width # height
    /\ stage_in = TwoWidthsLine
    /\ new_svg_code = Chars("<svg width=\"7\" width=\"7\" viewBox=\"-1 .5 7 5\">")

\* C6: the tag stage returns a row that holds no '<svg' as it got it.
C6_OnlyInsideSvgTags ==
    (pc = "stroke" /\ ~Contains(stage_in, "<svg")) => new_svg_code = stage_in

\* C7: the stroke and the fill stage replace every stroke="#<word characters>",
\* fill="#<word characters>" by the attribute with the configured colour and leave
\* the rest alone, whatever the colour: they return, and a row without such an
\* attribute comes back as it went in.
C7_StrokeFillReplaced ==
    /\ raised_in \notin {"stroke", "fill"}
    /\ pc = "fill" => new_svg_code = Replaced(StrokePat, Attr("stroke", hex_color), stage_in, 1)
    /\ pc = "append" => new_svg_code = Replaced(FillPat, Attr("fill", hex_color), stage_in, 1)
    /\ (pc = "append" /\ cur = PathLine /\ DefaultConfig) =>
           new_svg_code = Chars("<path stroke=\"#FF0000\" fill=\"#FF0000\"/>")

C9_StagesInOrderRowByRow ==
    /\ pc = "append" => new_svg_code = Pipeline(cur)
    /\ pc = "done" =>
           LET given == Split(svg_code)
           IN  result = Join([i \in 1..Len(given) |-> Pipeline(given[i])])
    /\ (pc = "done" /\ svg_code = HiddenWidthLine /\ DefaultConfig) =>
           result = Chars("<svg width=\"20\">")

\* C9's case: a call on three rows returned, and rewrote the middle row only.
C9_Witness ==
    /\ pc = "done"
    /\ Len(rows) = 3
    /\ result_list[1] = rows[1]
    /\ result_list[2] # rows[2]
    /\ result_list[3] = rows[3]

\* C10: the calls on one object leave its five fields as __init__ set them, and
\* every call ends as the first call on the object did: the same string, or the
\* same error.
C10_CallsArePure ==
    /\ [][pass' = pass => fields' = fields]_vars
    /\ [](pc = "done" => first = Returned(result))
    /\ [](pc = "raised" => first = Raised)

\* C10's case: a second call on one object returned, having rewritten the text.
C10_Witness ==
    /\ pc = "done"
    /\ calls = 2
    /\ result # svg_code

====
